---- MODULE Spec2Model ----
(***************************************************************************)
(* A model of symmetricinfo.py: the insurance-contract diagram served by a *)
(* Dash application.  The module-level code builds one figure (`fig`) with *)
(* nine traces; the callback `update_plot` recomputes the two indifference *)
(* curves from the two slider values it is called with and writes them     *)
(* into the last two traces of that one figure.                            *)
(*                                                                         *)
(* Numbers.  Python numbers are modelled as exact rationals [n, d] in      *)
(* lowest terms, with two departures that follow IEEE-754 doubles: `**`    *)
(* with a large negative exponent underflows to zero or overflows, and the *)
(* y-values of an indifference curve are evaluated in fixed point (see     *)
(* indifference_curve).                                                    *)
(***************************************************************************)
EXTENDS Integers, Sequences, FiniteSets, TLC

VARIABLES
    fig,        \* the module-level figure: a sequence of 9 traces [name, x, y]
    sessions,   \* the browser sessions that exist
    sliders,    \* per browser session: the two slider values the page holds
    last,       \* the most recent callback invocation (who, which slider)
    repeated,   \* whether that invocation repeated the one before it
    pc,         \* per session: where its running callback stands
    resp,       \* per session: the figure last serialised back to it
    params,     \* the economic parameters the module is imported with
    phase,      \* how far the import of the module has come
    util,       \* the four utilities of lines 40-43
    slider_cfg  \* the configuration of the two dcc.Slider widgets

vars == <<fig, sessions, sliders, last, repeated, pc, resp, params, phase, util, slider_cfg>>
sceneVars == <<fig, sessions, sliders, last, repeated, pc, resp>>
importVars == <<params, phase, util, slider_cfg>>

----------------------------------------------------------------------------
(* Rational arithmetic.  The operations are functions, so that their       *)
(* arguments are evaluated once.                                           *)

Abs(a) == IF a < 0 THEN -a ELSE a

Gcd[a \in Nat, b \in Nat] == IF b = 0 THEN a ELSE Gcd[b, a % b]

Rats == [n : Int, d : Nat \ {0}]

Rat[n \in Int, d \in Int] ==
    LET g == Gcd[Abs(n), Abs(d)]
        s == IF d < 0 THEN -1 ELSE 1
    IN  [n |-> s * (n \div g), d |-> s * (d \div g)]

Zero == Rat[0, 1]
One == Rat[1, 1]

RAdd[a \in Rats, b \in Rats] ==
    LET l == (a.d \div Gcd[a.d, b.d]) * b.d
    IN  Rat[a.n * (l \div a.d) + b.n * (l \div b.d), l]

RNeg[a \in Rats] == [n |-> -a.n, d |-> a.d]

RSub[a \in Rats, b \in Rats] == RAdd[a, RNeg[b]]

RMul[a \in Rats, b \in Rats] ==
    LET g1 == Gcd[Abs(a.n), b.d]
        g2 == Gcd[Abs(b.n), a.d]
    IN  Rat[(a.n \div g1) * (b.n \div g2), (a.d \div g2) * (b.d \div g1)]

RDiv[a \in Rats, b \in Rats] == RMul[a, Rat[b.d, b.n]]

RLt[a \in Rats, b \in Rats] == RSub[a, b].n < 0

RPowNat[b \in Rats, e \in Nat] == IF e = 0 THEN One ELSE RMul[b, RPowNat[b, e - 1]]

----------------------------------------------------------------------------
(* Python's `**`, `/` and the exceptions they raise                        *)

Ok(v) == [err |-> "none", v |-> v]
Raise(e) == [err |-> e, v |-> Zero]

\* A double has no value below 2^-1074: b ** -k is 0.0 once |b| >= 2 and
\* k >= 1076, and an OverflowError once |b| <= 1/2.
UnderflowExp == 1076

Pow[b \in Rats, e \in Int] ==
    CASE e >= 0 -> Ok(RPowNat[b, e])
      [] e < 0 /\ b.n = 0 -> Raise("ZeroDivisionError")
      [] e < 0 /\ b.n # 0 /\ -e < UnderflowExp -> Ok(RDiv[One, RPowNat[b, -e]])
      [] e < 0 /\ -e >= UnderflowExp /\ Abs(b.n) >= 2 * b.d -> Ok(Zero)
      [] e < 0 /\ -e >= UnderflowExp /\ b.n # 0 /\ 2 * Abs(b.n) <= b.d ->
            Raise("OverflowError")
      [] e < 0 /\ -e >= UnderflowExp /\ Abs(b.n) = b.d ->
            Ok(IF b.n < 0 /\ e % 2 = 1 THEN RNeg[One] ELSE One)

\* coef * wealth ** (1 - alpha) / (1 - alpha), evaluated left to right
UtilityTerm[coef \in Rats, wealth \in Rats, alpha \in Int] ==
    LET pw == Pow[wealth, 1 - alpha]
    IN  IF pw.err # "none" THEN pw
        ELSE IF alpha = 1 THEN Raise("ZeroDivisionError")
        ELSE Ok(RDiv[RMul[coef, pw.v], Rat[1 - alpha, 1]])

Results == [err : STRING, v : Rats]

Sum[t1 \in Results, t2 \in Results] ==
    IF t1.err # "none" THEN t1
    ELSE IF t2.err # "none" THEN t2
    ELSE Ok(RAdd[t1.v, t2.v])

utility_without_exceptions(wealth_no_accident, wealth_accident, probability, alpha) ==
    Ok(Sum[UtilityTerm[RSub[One, probability], wealth_no_accident, alpha],
           UtilityTerm[probability, wealth_accident, alpha]].v)

utility(wealth_no_accident, wealth_accident, probability, alpha) ==
    Sum[UtilityTerm[RSub[One, probability], wealth_no_accident, alpha],
        UtilityTerm[probability, wealth_accident, alpha]]

----------------------------------------------------------------------------
(* numpy arrays: sequences, computed pointwise                             *)

\* An array of num elements is modelled at its first and last index and at
\* every Stride-th index between (indices from 0, as in numpy); every
\* array operation of the program acts on each element independently.
Stride == 40

Sample(num) == {i \in 0..(num - 1) : i % Stride = 0} \cup {num - 1}

\* np.linspace(start, stop, num): num points, both ends included
linspace(start, stop, num) ==
    [i \in Sample(num) |->
        RAdd[start, RDiv[RMul[Rat[i, 1], RSub[stop, start]], Rat[num - 1, 1]]]]

ContractPoints == 100

contract_possibility_line_without_premium(W0, L, probability) ==
    LET coverage == linspace(Zero, Rat[L, 1], ContractPoints)
    IN  [no_acc |-> [i \in DOMAIN coverage |-> Rat[W0, 1]],
         acc |-> [i \in DOMAIN coverage |->
                    RSub[Rat[W0, 1], RSub[Rat[L, 1], coverage[i]]]]]

contract_possibility_line(W0, L, probability) ==
    LET coverage == linspace(Zero, Rat[L, 1], ContractPoints)
        premium == [i \in DOMAIN coverage |-> RMul[probability, coverage[i]]]
        wealth_no_accident == [i \in DOMAIN coverage |-> RSub[Rat[W0, 1], premium[i]]]
        wealth_accident ==
            [i \in DOMAIN coverage |->
                RSub[RSub[Rat[W0, 1], premium[i]], RSub[Rat[L, 1], coverage[i]]]]
    IN  [no_acc |-> wealth_no_accident, acc |-> wealth_accident]

pooled_contract_line(W0, L, p_g, p_s, share_high_risk) ==
    LET expected_p == RAdd[RMul[share_high_risk, p_s],
                           RMul[RSub[One, share_high_risk], p_g]]
    IN  contract_possibility_line(W0, L, expected_p)

\* The y-values of an indifference curve are doubles.  They are evaluated
\* here in fixed point: utilities in units of 1/Scale, wealth rounded down
\* to whole units, and two values for the non-finite results.
Scale == 18000 * 18000
NaN == -1
Inf == -2

\* floor(r * Scale)
ToFixed[r \in Rats] ==
    LET g == Gcd[Scale, r.d]
    IN  (r.n * (Scale \div g)) \div (r.d \div g)

IPow[b \in Int, e \in Nat] == IF e = 0 THEN 1 ELSE b * IPow[b, e - 1]

\* floor(Scale * x ** -k) for x # 0
FixedPow[x \in Rats, k \in Nat] ==
    LET g == Gcd[Scale, IPow[Abs(x.n), k]]
    IN  ((Scale \div g) * IPow[x.d, k]) \div (IPow[x.n, k] \div g)

RootSearch[n \in Int, k \in Int, lo \in Int, hi \in Int] ==
    IF hi - lo <= 1 THEN lo
    ELSE LET mid == (lo + hi) \div 2
         IN  IF IPow[mid, k] <= n THEN RootSearch[n, k, mid, hi]
             ELSE RootSearch[n, k, lo, mid]

\* the largest y with y^k <= n
IRoot[n \in Int, k \in Int] ==
    IF k = 1 THEN n
    ELSE RootSearch[n, k, 0, IF k = 2 THEN 32768 ELSE 1024]

\* One point of line 21-22, for alpha > 1 and 0 < probability < 1:
\*   ((utility_level*(1-alpha) - (1-probability)*x**(1-alpha)) / probability)
\*       ** (1/(1-alpha))
\* numpy gives x**(1-alpha) = inf at x = 0, so the bracket is -inf and the
\* power +0.0; a negative bracket gives nan, a zero bracket inf.
CurvePoint[x \in Rats, utility_level \in Rats, probability \in Rats, alpha \in Int] ==
    IF x.n = 0 THEN 0
    ELSE LET xp == FixedPow[x, alpha - 1]
             lhs == ToFixed[utility_level] * (1 - alpha)
             rhs == (xp * (probability.d - probability.n)) \div probability.d
             bracket == ((lhs - rhs) * probability.d) \div probability.n
         IN  IF bracket < 0 THEN NaN
             ELSE IF bracket = 0 THEN Inf
             ELSE IRoot[Scale \div bracket, alpha - 1]

indifference_curve(wealth_no_accident, utility_level, probability, alpha) ==
    [i \in DOMAIN wealth_no_accident |->
        CurvePoint[wealth_no_accident[i], utility_level, probability, alpha]]

----------------------------------------------------------------------------
(* The parameters (lines 5-11) and the data derived from them (38-46)      *)

W0 == 100
L == 40
p_s == Rat[1, 2]
p_g == Rat[1, 4]
alpha == 3
share_high_risk == Rat[1, 2]

Defaults ==
    [W0 |-> W0, L |-> L, p_s |-> p_s, p_g |-> p_g, alpha |-> alpha,
     share_high_risk |-> share_high_risk]

init_utility_s(P) == utility(Rat[P.W0, 1], Rat[P.W0 - P.L, 1], P.p_s, P.alpha)
init_utility_g(P) == utility(Rat[P.W0, 1], Rat[P.W0 - P.L, 1], P.p_g, P.alpha)
max_utility_s(P) ==
    utility(RSub[Rat[P.W0, 1], RMul[P.p_g, Rat[P.L, 1]]],
            RSub[Rat[P.W0, 1], RMul[P.p_s, Rat[P.L, 1]]], Zero, P.alpha)
max_utility_g(P) ==
    utility(RSub[Rat[P.W0, 1], RMul[P.p_g, Rat[P.L, 1]]],
            RSub[Rat[P.W0, 1], RMul[P.p_s, Rat[P.L, 1]]], Zero, P.alpha)

\* The four utilities in the order the module computes them; the first
\* exception ends the import.
FirstError[us \in STRING, ug \in STRING, ms \in STRING, mg \in STRING] ==
    IF us # "none" THEN us
    ELSE IF ug # "none" THEN ug
    ELSE IF ms # "none" THEN ms
    ELSE mg

InitialData(P) ==
    [err |-> FirstError[init_utility_s(P).err, init_utility_g(P).err,
                        max_utility_s(P).err, max_utility_g(P).err],
     init_s |-> init_utility_s(P).v, init_g |-> init_utility_g(P).v,
     max_s |-> max_utility_s(P).v, max_g |-> max_utility_g(P).v]

\* dcc.Slider(min=, max=, value=, step=) of lines 104-124
SliderStepCount == 100

SliderMax[init_u \in Rats, max_u \in Rats] ==
    RAdd[max_u, RMul[Rat[1, 2], RSub[max_u, init_u]]]

Slider_starting_at_max(init_u, max_u) ==
    [min |-> init_u, max |-> SliderMax[init_u, max_u],
     value |-> SliderMax[init_u, max_u],
     step |-> RDiv[RSub[SliderMax[init_u, max_u], init_u], Rat[SliderStepCount, 1]]]

Slider(init_u, max_u) ==
    [min |-> init_u, max |-> SliderMax[init_u, max_u], value |-> init_u,
     step |-> RDiv[RSub[SliderMax[init_u, max_u], init_u], Rat[SliderStepCount, 1]]]

\* line 39: np.linspace(0, W0 + 50, W0 + 50)
x_vals == linspace(Zero, Rat[W0 + 50, 1], W0 + 50)

DefaultData == InitialData(Defaults)
slider_s == Slider(DefaultData.init_s, DefaultData.max_s)
slider_g == Slider(DefaultData.init_g, DefaultData.max_g)

----------------------------------------------------------------------------
(* Import of the module under a parameter set                              *)

MaxW0 == 6
MaxLoss4 == 2
MaxAlpha == 3
UnderflowAlpha == UnderflowExp + 1

Quarters == {Rat[q, 4] : q \in 0..4}

ParamSets ==
    [W0 : 0..MaxW0,
     L : {4 * l : l \in 0..MaxLoss4},
     p_s : Quarters,
     p_g : Quarters,
     alpha : (0..MaxAlpha) \cup {UnderflowAlpha},
     share_high_risk : {Rat[q, 2] : q \in {1, 3}}]

NoUtil == [err |-> "none", init_s |-> Zero, init_g |-> Zero, max_s |-> Zero, max_g |-> Zero]
NoSlider == [min |-> Zero, max |-> Zero, value |-> Zero, step |-> Zero]
NoCfg == [s |-> NoSlider, g |-> NoSlider]

\* lines 38-46: x_vals, the utilities, the seeded curves.  Only the scalar
\* utilities can raise; the numpy expressions warn and go on.
ComputeInitialData ==
    /\ phase = "import"
    /\ LET d == InitialData(params)
       IN  /\ util' = d
           /\ phase' = IF d.err = "none" THEN "data" ELSE "fatal"
    /\ UNCHANGED <<sceneVars, params, slider_cfg>>

\* lines 95-125: the layout with the two sliders
BuildLayout ==
    /\ phase = "data"
    /\ slider_cfg' = [s |-> Slider(util.init_s, util.max_s),
                      g |-> Slider(util.init_g, util.max_g)]
    /\ phase' = "layout"
    /\ UNCHANGED <<sceneVars, params, util>>

\* lines 57 and 146-147: the server takes requests
RunServer ==
    /\ phase = "layout"
    /\ phase' = "serving"
    /\ UNCHANGED <<sceneVars, params, util, slider_cfg>>

ImportInit ==
    /\ params \in ParamSets
    /\ phase = "import"
    /\ util = NoUtil
    /\ slider_cfg = NoCfg
    /\ fig = <<>>
    /\ sessions = {}
    /\ sliders = <<>>
    /\ last = <<>>
    /\ repeated = FALSE
    /\ pc = <<>>
    /\ resp = <<>>

ImportNext == ComputeInitialData \/ BuildLayout \/ RunServer

ImportSpec == ImportInit /\ [][ImportNext]_vars

----------------------------------------------------------------------------
(* The figure (lines 48-85) and the callback (lines 129-143)               *)

indifference_curve_s == indifference_curve(x_vals, DefaultData.init_s, p_s, alpha)
indifference_curve_g == indifference_curve(x_vals, DefaultData.init_g, p_g, alpha)

contract_line_s == contract_possibility_line(W0, L, p_s)
contract_line_g == contract_possibility_line(W0, L, p_g)
pooled_line == pooled_contract_line(W0, L, p_g, p_s, share_high_risk)
full_insurance_s == RSub[Rat[W0, 1], RMul[p_s, Rat[L, 1]]]
full_insurance_g == RSub[Rat[W0, 1], RMul[p_g, Rat[L, 1]]]

Scatter(x, y, name) == [name |-> name, x |-> x, y |-> y]

\* fig = go.Figure() followed by the nine add_trace calls
InitialFig ==
    << Scatter(contract_line_s.no_acc, contract_line_s.acc, "Contract Line (High Risk)"),
       Scatter(contract_line_g.no_acc, contract_line_g.acc, "Contract Line (Low Risk)"),
       Scatter(pooled_line.no_acc, pooled_line.acc, "Pooled Contract Line"),
       Scatter(<<Zero, Rat[150, 1]>>, <<Zero, Rat[150, 1]>>, "Certainty Line"),
       Scatter(<<full_insurance_s>>, <<full_insurance_s>>, "Full Insurance (Bad Type)"),
       Scatter(<<full_insurance_g>>, <<full_insurance_g>>, "Full Insurance (Good Type)"),
       Scatter(<<Rat[W0, 1]>>, <<Rat[W0 - L, 1]>>, "A (No insurance)"),
       Scatter(x_vals, indifference_curve_s, "I_s (High Risk)"),
       Scatter(x_vals, indifference_curve_g, "I_g (Low Risk)") >>

\* The values a request can carry for a slider: the widget's positions
\* min + k*step, and positions beyond either end (the callback endpoint
\* takes any number).
Beyond == 20

Positions == {0, SliderStepCount}

SliderValue(cfg, k) == RAdd[cfg.min, RMul[Rat[k, 1], cfg.step]]

RequestValues(cfg) ==
    {SliderValue(cfg, k) : k \in Positions \cup {-Beyond, SliderStepCount + Beyond}}

\* lines 136 and 140: the high-risk curve for the value the callback was
\* called with, written to fig.data[-2]
set_curve_s(f, new_utility_s) ==
    [f EXCEPT ![Len(f) - 1].y = indifference_curve(x_vals, new_utility_s, p_s, alpha)]

\* lines 137 and 141: the low-risk curve, written to fig.data[-1]
set_curve_g(f, new_utility_g) ==
    [f EXCEPT ![Len(f)].y = indifference_curve(x_vals, new_utility_g, p_g, alpha)]

Clamp[v \in Rats, lo \in Rats, hi \in Rats] ==
    IF RLt[v, lo] THEN lo ELSE IF RLt[hi, v] THEN hi ELSE v

update_plot_clamped(f, new_utility_s, new_utility_g) ==
    set_curve_g(set_curve_s(f, Clamp[new_utility_s, slider_s.min, slider_s.max]),
                Clamp[new_utility_g, slider_g.min, slider_g.max])

update_plot_wrong_traces(f, new_utility_s, new_utility_g) ==
    [f EXCEPT ![Len(f) - 2].y = indifference_curve(x_vals, new_utility_s, p_s, alpha),
              ![Len(f) - 1].y = indifference_curve(x_vals, new_utility_g, p_g, alpha)]

update_plot_adds_traces(f, new_utility_s, new_utility_g) ==
    IF Len(f) > 12 THEN f
    ELSE Append(f, [name |-> "I_s (High Risk)", x |-> x_vals,
                    y |-> indifference_curve(x_vals, new_utility_s, p_s, alpha)])

update_plot_swapped(f, new_utility_s, new_utility_g) ==
    [f EXCEPT ![Len(f) - 1].y = indifference_curve(x_vals, new_utility_g, p_g, alpha),
              ![Len(f)].y = indifference_curve(x_vals, new_utility_s, p_s, alpha)]

\* lines 134-143 run without interruption: both curves are recomputed
\* from the two values the callback is called with
update_plot(f, new_utility_s, new_utility_g) ==
    set_curve_g(set_curve_s(f, new_utility_s), new_utility_g)

Cfg(which) == IF which = "high" THEN slider_cfg.s ELSE slider_cfg.g

AllSessions == {1, 2}

NoEvent == [kind |-> "none", sess |-> 0, which |-> "none"]

\* A browser opens the page: its sliders stand at `value`, and Dash calls
\* the callback once with them.
PageLoad(sess) ==
    /\ sess \in sessions
    /\ sliders' = [sliders EXCEPT ![sess] =
                      [open |-> TRUE, s |-> slider_cfg.s.value, g |-> slider_cfg.g.value]]
    /\ fig' = update_plot(fig, slider_cfg.s.value, slider_cfg.g.value)
    /\ last' = [kind |-> "load", sess |-> sess, which |-> "both"]
    /\ repeated' = FALSE
    /\ UNCHANGED <<sessions, pc, resp, importVars>>

\* A slider of an open page moves to v: the callback runs with the page's
\* two values, the moved one being v.
SliderChange(sess, which, v) ==
    /\ sess \in sessions
    /\ sliders[sess].open
    /\ LET new == IF which = "high" THEN [sliders[sess] EXCEPT !.s = v]
                  ELSE [sliders[sess] EXCEPT !.g = v]
       IN  /\ sliders' = [sliders EXCEPT ![sess] = new]
           /\ fig' = update_plot(fig, new.s, new.g)
    /\ repeated' = (/\ last = [kind |-> "slider", sess |-> sess, which |-> which]
                    /\ v = (IF which = "high" THEN sliders[sess].s ELSE sliders[sess].g))
    /\ last' = [kind |-> "slider", sess |-> sess, which |-> which]
    /\ UNCHANGED <<sessions, pc, resp, importVars>>

ServingInit(S) ==
    /\ fig = InitialFig
    /\ sessions = S
    /\ sliders = [sess \in AllSessions |->
                    [open |-> FALSE, s |-> slider_s.value, g |-> slider_g.value]]
    /\ last = NoEvent
    /\ repeated = FALSE
    /\ pc = [sess \in AllSessions |-> "idle"]
    /\ resp = [sess \in AllSessions |-> <<>>]
    /\ params = Defaults
    /\ phase = "serving"
    /\ util = DefaultData
    /\ slider_cfg = [s |-> slider_s, g |-> slider_g]

Init == ServingInit(AllSessions)

Next ==
    \/ \E sess \in AllSessions : PageLoad(sess)
    \/ \E sess \in AllSessions, which \in {"high", "low"} :
          \E v \in RequestValues(Cfg(which)) : SliderChange(sess, which, v)

\* Callbacks run one at a time; any number of pages are open.
Spec == Init /\ [][Next]_vars

----------------------------------------------------------------------------
(* The callback under a threaded server: the requests of two sessions run  *)
(* in two threads, which interleave between the statements of update_plot  *)

\* The page of sess sends a request (its load, or a slider moved to a
\* position of the widget); the callback is entered with the page's values.
Request(sess, which, v) ==
    /\ sess \in sessions
    /\ pc[sess] = "idle"
    /\ \/ /\ which = "both"
          /\ sliders' = [sliders EXCEPT ![sess] =
                            [open |-> TRUE, s |-> slider_cfg.s.value,
                             g |-> slider_cfg.g.value]]
       \/ /\ which = "high" /\ sliders[sess].open
          /\ sliders' = [sliders EXCEPT ![sess].s = v]
       \/ /\ which = "low" /\ sliders[sess].open
          /\ sliders' = [sliders EXCEPT ![sess].g = v]
    /\ pc' = [pc EXCEPT ![sess] = "line140"]
    /\ resp' = [resp EXCEPT ![sess] = <<>>]
    /\ UNCHANGED <<fig, sessions, last, repeated, importVars>>

Line140(sess) ==
    /\ pc[sess] = "line140"
    /\ fig' = set_curve_s(fig, sliders[sess].s)
    /\ pc' = [pc EXCEPT ![sess] = "line141"]
    /\ UNCHANGED <<sessions, sliders, last, repeated, resp, importVars>>

Line141(sess) ==
    /\ pc[sess] = "line141"
    /\ fig' = set_curve_g(fig, sliders[sess].g)
    /\ pc' = [pc EXCEPT ![sess] = "line143"]
    /\ UNCHANGED <<sessions, sliders, last, repeated, resp, importVars>>

\* line 143: the figure as it stands is returned and serialised
Return(sess) ==
    /\ pc[sess] = "line143"
    /\ resp' = [resp EXCEPT ![sess] = fig]
    /\ pc' = [pc EXCEPT ![sess] = "idle"]
    /\ UNCHANGED <<fig, sessions, sliders, last, repeated, importVars>>

WidgetValues(cfg) == {SliderValue(cfg, k) : k \in Positions}

ThreadedNext ==
    \/ \E sess \in AllSessions : Request(sess, "both", Zero)
    \/ \E sess \in AllSessions, which \in {"high", "low"} :
          \E v \in WidgetValues(Cfg(which)) : Request(sess, which, v)
    \/ \E sess \in AllSessions : Line140(sess)
    \/ \E sess \in AllSessions : Line141(sess)
    \/ \E sess \in AllSessions : Return(sess)

ThreadedSpec == Init /\ [][ThreadedNext]_vars

----------------------------------------------------------------------------
(* Properties                                                              *)

\* the value of the slider that the last event moved, its configuration,
\* the trace it belongs to and that trace's probability
MovedValue == IF last.which = "high" THEN sliders[last.sess].s ELSE sliders[last.sess].g
MovedCfg == IF last.which = "high" THEN slider_cfg.s ELSE slider_cfg.g
MovedSlot == IF last.which = "high" THEN 8 ELSE 9
MovedP == IF last.which = "high" THEN p_s ELSE p_g
OutOfRange(v, cfg) ==
    RLt[v, cfg.min] \/ RLt[cfg.max, v]

\* C1 (as claimed): an event of the high slider leaves the y-values of the
\* low-risk curve (trace 9) as they were, and an event of the low slider
\* leaves those of the high-risk curve (trace 8) as they were.
C1_Independence ==
    [][last'.kind = "slider" =>
          /\ last'.which = "high" => fig'[9].y = fig[9].y
          /\ last'.which = "low" => fig'[8].y = fig[8].y]_vars

\* C2 (as claimed): the figure returned to a session for its event shows
\* both indifference curves at that session's own slider values.
C2_SessionIsolation ==
    \A sess \in AllSessions :
        pc[sess] = "idle" /\ resp[sess] # <<>> =>
            /\ resp[sess][8].y = indifference_curve(x_vals, sliders[sess].s, p_s, alpha)
            /\ resp[sess][9].y = indifference_curve(x_vals, sliders[sess].g, p_g, alpha)

\* C3 (as claimed): the moved slider's curve is the curve of the value
\* clamped into [min, max].
C3_Clamped ==
    last.kind = "slider" =>
        fig[MovedSlot].y =
            indifference_curve(x_vals, Clamp[MovedValue, MovedCfg.min, MovedCfg.max],
                               MovedP, alpha)

\* C3 (amended): a value outside [min, max] is neither rejected nor
\* clamped: the moved slider's curve is the curve of that very value, which
\* is not the curve of min or of max.
C3_NotClamped ==
    last.kind = "slider" /\ OutOfRange(MovedValue, MovedCfg) =>
        /\ fig[MovedSlot].y = indifference_curve(x_vals, MovedValue, MovedP, alpha)
        /\ fig[MovedSlot].y # indifference_curve(x_vals, MovedCfg.min, MovedP, alpha)
        /\ fig[MovedSlot].y # indifference_curve(x_vals, MovedCfg.max, MovedP, alpha)

C3_Witness ==
    /\ last.kind = "slider"
    /\ RLt[MovedValue, MovedCfg.min]
    /\ fig[MovedSlot].y # InitialFig[MovedSlot].y

\* C4: the figure always has its nine traces in the order of construction;
\* traces 1-7 are as constructed, and traces 8 and 9 keep the x grid.
TraceNames ==
    << "Contract Line (High Risk)", "Contract Line (Low Risk)", "Pooled Contract Line",
       "Certainty Line", "Full Insurance (Bad Type)", "Full Insurance (Good Type)",
       "A (No insurance)", "I_s (High Risk)", "I_g (Low Risk)" >>

C4_StaticFrame ==
    /\ Len(fig) = 9
    /\ \A i \in 1..9 : fig[i].name = TraceNames[i]
    /\ \A i \in 1..7 : fig[i] = InitialFig[i]
    /\ fig[8].x = x_vals
    /\ fig[9].x = x_vals

C4_Witness ==
    /\ last.kind = "slider"
    /\ fig[8].y # InitialFig[8].y
    /\ fig[9].y # InitialFig[9].y

\* C5: an event that repeats the event before it (same session, same
\* slider, same value) leaves the whole figure as the first one left it.
C5_Idempotent == [][repeated' => fig' = fig]_vars

C5_Witness == repeated /\ last.kind = "slider" /\ fig # InitialFig

\* C6: an event that moves a slider to its initial value makes that
\* slider's trace equal to the trace seeded at construction.
C6_RoundTrip ==
    last.kind = "slider" /\ MovedValue = MovedCfg.value =>
        fig[MovedSlot] = InitialFig[MovedSlot]

C6_Witness ==
    /\ last.kind = "slider"
    /\ last.which = "high"
    /\ MovedValue = MovedCfg.value
    /\ fig[9].y # InitialFig[9].y

\* C7 (as claimed): the high-risk contract line starts at (100, 60) and
\* ends, at coverage 40, at (100, 100).
C7_EndsAtEndowment ==
    /\ fig[1].x[0] = Rat[100, 1] /\ fig[1].y[0] = Rat[60, 1]
    /\ fig[1].x[ContractPoints - 1] = Rat[100, 1]
    /\ fig[1].y[ContractPoints - 1] = Rat[100, 1]

\* C7 (amended): the line starts at (100, 60) and ends, at coverage 40,
\* at (80, 80): the premium 0.5 * 40 is paid in both states.
C7_EndsAtFullInsurance ==
    /\ fig[1].x[0] = Rat[100, 1] /\ fig[1].y[0] = Rat[60, 1]
    /\ fig[1].x[ContractPoints - 1] = Rat[80, 1]
    /\ fig[1].y[ContractPoints - 1] = Rat[80, 1]

C7_Witness ==
    /\ fig[1].name = "Contract Line (High Risk)"
    /\ fig[1].x = contract_possibility_line(100, 40, Rat[1, 2]).no_acc
    /\ fig[1].y = contract_possibility_line(100, 40, Rat[1, 2]).acc
    /\ fig[1].x[ContractPoints - 1] = fig[5].x[1]

\* the invariants of the parameters
Valid(P) ==
    /\ RLt[Zero, P.p_g] /\ RLt[P.p_g, P.p_s] /\ RLt[P.p_s, One]
    /\ 0 < P.L /\ P.L < P.W0
    /\ P.alpha > 1
    /\ ~RLt[P.share_high_risk, Zero] /\ ~RLt[One, P.share_high_risk]

\* the four wealth levels that the utilities of lines 40-43 raise to 1 - alpha
Wealths(P) ==
    {Rat[P.W0, 1], Rat[P.W0 - P.L, 1],
     RSub[Rat[P.W0, 1], RMul[P.p_g, Rat[P.L, 1]]],
     RSub[Rat[P.W0, 1], RMul[P.p_s, Rat[P.L, 1]]]}

RangeNonDegenerate ==
    /\ RLt[util.init_s, util.max_s]
    /\ RLt[util.init_g, util.max_g]
    /\ RLt[slider_cfg.s.min, slider_cfg.s.max]
    /\ RLt[slider_cfg.g.min, slider_cfg.g.max]
    /\ RLt[Zero, slider_cfg.s.step]
    /\ RLt[Zero, slider_cfg.g.step]

\* C9 (as claimed): for every valid parameter set the no-insurance utility
\* of either type is below the utility of the efficient allocation, so each
\* slider has max > min and step > 0.
C9_RangeNonDegenerate ==
    Valid(params) /\ phase \in {"layout", "serving"} => RangeNonDegenerate

\* C10: after any events, trace 8 holds the high-risk curve of the high
\* slider's value and trace 9 the low-risk curve of the low slider's value,
\* the values being those of the page whose event was handled last.
C10_SlotMapping ==
    last.kind # "none" =>
        /\ fig[8].y = indifference_curve(x_vals, sliders[last.sess].s, p_s, alpha)
        /\ fig[9].y = indifference_curve(x_vals, sliders[last.sess].g, p_g, alpha)

C10_Witness ==
    /\ last.kind = "slider"
    /\ sliders[last.sess].s # slider_cfg.s.value
    /\ sliders[last.sess].g # slider_cfg.g.value
    /\ sliders[last.sess].s # sliders[last.sess].g

====
